---------------------------- MODULE Spec2Model ----------------------------
(***************************************************************************)
(* Model of the FileStorage facade of ByteStore-SDK                        *)
(* (src/examples/node-usage.js, class FileStorage, lines 73-450).          *)
(*                                                                         *)
(* The facade is a process-wide singleton holding a network client handle  *)
(* (synapse) and a flag (isInitialized).  Every public method is an async  *)
(* function: it runs synchronously up to its first await, and resumes when *)
(* the awaited external promise settles.  The model has one action for the *)
(* synchronous prefix of each method and one action per settlement of each *)
(* awaited external call.  The runtime is Node.js >= 20: the globals File, *)
(* Blob and Buffer exist.                                                  *)
(*                                                                         *)
(* JavaScript strings are sequences of one-character strings so that       *)
(* String.prototype.includes and template concatenation can be computed.   *)
(* Arbitrary-precision integers (bigint) are sequences of decimal digits.  *)
(***************************************************************************)
EXTENDS Integers, Sequences, FiniteSets, TLC

\* ------------------------------------------------------------------------
\* Bounds of the model
\* ------------------------------------------------------------------------

\* number of initialize() calls that may be in flight at the same time
MaxInits == 2

\* ------------------------------------------------------------------------
\* JavaScript values
\* ------------------------------------------------------------------------

\* every JavaScript value is a record tagged with its kind in field t
Undefined == [t |-> "undefined"]
Null == [t |-> "null"]

\* a string given by its characters
Str(chars) == [t |-> "string", chars |-> chars]

\* a boolean
Bool(b) == [t |-> "boolean", bool |-> b]

\* an Error object carrying a message
Err(msg) == [t |-> "Error", message |-> msg]

\* a TypeError raised by the runtime
TypeErr(msg) == [t |-> "TypeError", message |-> msg]

\* JavaScript truthiness
Truthy(v) ==
  CASE v.t \in {"undefined", "null"} -> FALSE
    [] v.t = "string" ->
         IF "chars" \in DOMAIN v THEN v.chars # <<>>
         ELSE IF "repeat" \in DOMAIN v THEN v.repeat.count > 0
         ELSE Len(v.text.pre) + v.text.count + Len(v.text.post) > 0
    [] v.t = "boolean" -> v.bool
    [] v.t = "number" -> v.num # 0
    [] v.t = "NaN" -> FALSE
    [] v.t = "bigint" -> v.digits # <<0>>
    [] OTHER -> TRUE

\* a || b
OrElse(a, b) == IF Truthy(a) THEN a ELSE b

\* the record c with the fields of upd added or overwritten
With(c, upd) == upd @@ c

\* 'Must provide either privateKey or provider'
MsgMustProvide ==
  <<
    "M","u","s","t"," ","p","r","o","v","i","d","e"," ","e","i","t","h","e",
    "r"," ","p","r","i","v","a","t","e","K","e","y"," ","o","r"," ","p","r",
    "o","v","i","d","e","r" >>

\* 'FileStorage not initialized. Call initialize() first.'
MsgNotInitialized ==
  <<
    "F","i","l","e","S","t","o","r","a","g","e"," ","n","o","t"," ","i","n",
    "i","t","i","a","l","i","z","e","d","."," ","C","a","l","l"," ","i","n",
    "i","t","i","a","l","i","z","e","(",")"," ","f","i","r","s","t","." >>

\* 'Unsupported file type.'
MsgUnsupported ==
  <<
    "U","n","s","u","p","p","o","r","t","e","d"," ","f","i","l","e"," ","t",
    "y","p","e","." >>

\* 'File must be at least 1 byte'
MsgTooSmall ==
  <<
    "F","i","l","e"," ","m","u","s","t"," ","b","e"," ","a","t"," ","l","e",
    "a","s","t"," ","1"," ","b","y","t","e" >>

\* 'File must be smaller than 200 MiB'
MsgTooLarge ==
  <<
    "F","i","l","e"," ","m","u","s","t"," ","b","e"," ","s","m","a","l","l",
    "e","r"," ","t","h","a","n"," ","2","0","0"," ","M","i","B" >>

\* 'Insufficient allowance for upload. Please setup wallet first.'
MsgInsufficient ==
  <<
    "I","n","s","u","f","f","i","c","i","e","n","t"," ","a","l","l","o","w",
    "a","n","c","e"," ","f","o","r"," ","u","p","l","o","a","d","."," ","P",
    "l","e","a","s","e"," ","s","e","t","u","p"," ","w","a","l","l","e","t",
    " ","f","i","r","s","t","." >>

\* 'Image must be a File or Blob object'
MsgImageType ==
  <<
    "I","m","a","g","e"," ","m","u","s","t"," ","b","e"," ","a"," ","F","i",
    "l","e"," ","o","r"," ","B","l","o","b"," ","o","b","j","e","c","t" >>

\* 'https://ipfs.io/ipfs/'
GatewayPrefix ==
  <<
    "h","t","t","p","s",":","/","/","i","p","f","s",".","i","o","/","i","p",
    "f","s","/" >>

\* the error every guarded method throws before initialization
NotInitializedError == Err(MsgNotInitialized)

\* ------------------------------------------------------------------------
\* State
\* ------------------------------------------------------------------------

VARIABLES
  synapse,        \* this.synapse: Null or the network client handle
  isInitialized,  \* this.isInitialized
  inits,          \* the initialize() calls in flight, by caller
  call,           \* the call of another public method in flight
  PINATA_JWT,     \* process.env.PINATA_JWT
  store           \* the storage network behind synapse.storage

vars == << synapse, isInitialized, inits, call, PINATA_JWT, store >>

Inits == 1..MaxInits

IdleInit == [pc |-> "idle"]
IdleCall == [op |-> "none", pc |-> "idle"]

\* ------------------------------------------------------------------------
\* initialize(options)
\* ------------------------------------------------------------------------

\* RPC_URLS of the external SDK
RPC_URLS == [mainnet |-> [http |-> "rpc.mainnet.http"],
             calibration |-> [http |-> "rpc.calibration.http"]]

\* the options a caller may pass to initialize: a privateKey with and without
\* a network, a provider, both, neither (also with an empty privateKey);
\* Null makes the destructuring of line 89 throw
InitOptions ==
  LET key == Str(<<"0", "x", "k">>)
      provider == [t |-> "provider"]
      mainnet == Str(<<"m", "a", "i", "n", "n", "e", "t">>)
      Options(k, p, n) == [privateKey |-> k, provider |-> p, network |-> n,
                           authorization |-> Undefined]
  IN {Options(key, Undefined, mainnet), Options(key, Undefined, Undefined),
      Options(key, provider, Undefined), Options(Str(<<>>), provider, Undefined),
      Options(Undefined, provider, mainnet),
      Options(Undefined, Undefined, Undefined),
      Options(Str(<<>>), Undefined, mainnet),
      Null}

\* errors with which Synapse.create may reject
CreateErrors == {Err(<<"b","a","d"," ","k","e","y">>)}

\* lines 89-105: the options handed to Synapse.create, or the error thrown
\* before the client is constructed
SynapseOptions(options) ==
  IF options = Null
    THEN [ok |-> FALSE,
          error |-> TypeErr(<<"n","o","t"," ","i","t","e","r","a","b","l","e">>)]
  ELSE LET network == IF options.network = Undefined
                        THEN Str(<<"c", "a", "l", "i", "b", "r", "a", "t", "i", "o", "n">>)
                      ELSE options.network
       IN IF Truthy(options.privateKey)
            THEN [ok |-> TRUE,
                  value |-> [authorization |-> options.authorization,
                             withCDN |-> TRUE,
                             privateKey |-> options.privateKey,
                             rpcURL |-> IF network = Str(<<"m", "a", "i", "n", "n", "e", "t">>)
                                          THEN RPC_URLS.mainnet.http
                                          ELSE RPC_URLS.calibration.http]]
          ELSE IF Truthy(options.provider)
            THEN [ok |-> TRUE,
                  value |-> [authorization |-> options.authorization,
                             withCDN |-> TRUE,
                             provider |-> options.provider]]
          ELSE [ok |-> FALSE, error |-> Err(MsgMustProvide)]

\* initialize, lines 87-107: the synchronous part up to `await Synapse.create`
initialize(i, options) ==
  /\ inits[i].pc = "idle"
  /\ LET so == SynapseOptions(options)
     IN inits' = [inits EXCEPT ![i] =
          IF so.ok THEN [pc |-> "create", options |-> options,
                         synapseOptions |-> so.value]
          ELSE [pc |-> "thrown", options |-> options, error |-> so.error]]
  /\ UNCHANGED << synapse, isInitialized, call, PINATA_JWT, store >>

\* createResolved keeping a client that is already stored
createResolved_FirstWins(i) ==
  /\ inits[i].pc = "create"
  /\ synapse' = IF synapse = Null
                  THEN [client |-> i, options |-> inits[i].synapseOptions]
                ELSE synapse
  /\ isInitialized' = TRUE
  /\ inits' = [inits EXCEPT ![i] =
       With(inits[i], [pc |-> "returned", value |-> Bool(TRUE),
                       pending |-> {j \in Inits \ {i} :
                                      inits[j].pc = "create"}])]
  /\ UNCHANGED << call, PINATA_JWT, store >>

\* lines 107-111: Synapse.create resolved; the client is stored and the
\* session is marked initialized in the same continuation; `pending` keeps
\* the callers whose own construction was in flight at that moment
createResolved(i) ==
  /\ inits[i].pc = "create"
  /\ synapse' = [client |-> i, options |-> inits[i].synapseOptions]
  /\ isInitialized' = TRUE
  /\ inits' = [inits EXCEPT ![i] =
       With(inits[i], [pc |-> "returned", value |-> Bool(TRUE),
                       pending |-> {j \in Inits \ {i} :
                                      inits[j].pc = "create"}])]
  /\ UNCHANGED << call, PINATA_JWT, store >>

\* createRejected as if the flag were set before the client is constructed
createRejected_FlagSet(i, e) ==
  /\ inits[i].pc = "create"
  /\ inits' = [inits EXCEPT ![i] = With(inits[i], [pc |-> "thrown", error |-> e])]
  /\ isInitialized' = TRUE
  /\ UNCHANGED << synapse, call, PINATA_JWT, store >>

\* lines 112-115: Synapse.create rejected; the error is logged and rethrown
createRejected(i, e) ==
  /\ inits[i].pc = "create"
  /\ inits' = [inits EXCEPT ![i] = With(inits[i], [pc |-> "thrown", error |-> e])]
  /\ UNCHANGED << synapse, isInitialized, call, PINATA_JWT, store >>

\* the caller of initialize has observed the outcome
initializeSettled(i) ==
  /\ inits[i].pc \in {"returned", "thrown"}
  /\ inits' = [inits EXCEPT ![i] = IdleInit]
  /\ UNCHANGED << synapse, isInitialized, call, PINATA_JWT, store >>

\* ------------------------------------------------------------------------
\* Calls of the other public methods
\* ------------------------------------------------------------------------

\* a call that has just been made: no external call issued yet
Enter(op, args) == [op |-> op, args |-> args, trace |-> <<>>]

\* the call c rejects with e
Thrown(c, e) == With(c, [pc |-> "thrown", error |-> e])

\* the call c resolves with v
Returned(c, v) == With(c, [pc |-> "returned", value |-> v])

\* the call c issues the external call fn and waits for it at pc
Await(c, pc, fn, upd) ==
  With(c, With(upd, [pc |-> pc, trace |-> Append(c.trace, fn)]))

\* errors with which a call of the network client may reject
NetworkErrors == {Err(<<"t", "i", "m", "e", "o", "u", "t">>)}

\* the caller of the method has observed the outcome
callSettled ==
  /\ call.pc \in {"returned", "thrown"}
  /\ call' = IdleCall
  /\ UNCHANGED << synapse, isInitialized, inits, PINATA_JWT, store >>

\* ------------------------------------------------------------------------
\* uploadFile(file, filename), pinToIPFS(cid, filename)
\* ------------------------------------------------------------------------

\* line 241: the largest accepted byte length, 200 MiB
MaxFileSize == 209715200

\* the string made of count copies of the character unit
Repeat(unit, count) == [t |-> "string", repeat |-> [unit |-> unit, count |-> count]]

\* the bytes a character takes in UTF-8: "a" is U+0061, "e'" is U+00E9,
\* "U+FEFF" is the byte order mark EF BB BF
Utf8Bytes(unit) == IF unit = "a" THEN 1 ELSE IF unit = "e'" THEN 2 ELSE 3

\* a text: the characters pre, then count copies of unit, then post
\* (pre and post are ASCII)
Text(pre, unit, count, post) ==
  [pre |-> pre, unit |-> unit, count |-> count, post |-> post]

\* new TextEncoder().encode(text): the UTF-8 bytes of a text
TextEncoderEncode(text) ==
  [t |-> "Uint8Array",
   size |-> Len(text.pre) + text.count * Utf8Bytes(text.unit) + Len(text.post),
   utf8 |-> text]

\* typeof v
Typeof(v) ==
  CASE v.t \in {"undefined", "string", "number", "boolean", "function",
               "bigint"} -> v.t
    [] v.t = "NaN" -> "number"
    [] OTHER -> "object"

\* v instanceof File
InstanceOfFile(v) == v.t = "File"

\* v instanceof Blob (File extends Blob)
InstanceOfBlob(v) == v.t \in {"File", "Blob"}

\* Buffer.isBuffer(v)
IsBuffer(v) == v.t = "Buffer"

\* v instanceof Uint8Array (Buffer extends Uint8Array)
InstanceOfUint8Array(v) == v.t \in {"Buffer", "Uint8Array"}

\* JSON.stringify of a value that took the `typeof file === 'object'` branch:
\* null gives 'null', the object {a: s} gives '{"a":"s"}', an object with a
\* cycle throws
JSONStringify(v) ==
  CASE v.t = "null" ->
         [ok |-> TRUE, text |-> Text(<<"n", "u", "l", "l">>, "a", 0, <<>>)]
    [] v.t = "object" /\ v.shape = "plain" ->
         [ok |-> TRUE,
          text |-> Text(<<"{", "\"", "a", "\"", ":", "\"">>,
                        v.a.repeat.unit, v.a.repeat.count, <<"\"", "}">>)]
    [] OTHER ->
         [ok |-> FALSE,
          error |-> TypeErr(<<"c", "i", "r", "c", "u", "l", "a", "r">>)]

\* lines 224-235: the bytes of an input that is neither a File nor a Blob
Normalize(file) ==
  IF IsBuffer(file) THEN
    [ok |-> TRUE, data |-> [t |-> "Uint8Array", size |-> file.size]]
  ELSE IF InstanceOfUint8Array(file) THEN
    [ok |-> TRUE, data |-> file]
  ELSE IF Typeof(file) = "string" THEN
    [ok |-> TRUE,
     data |-> TextEncoderEncode(Text(<<>>, file.repeat.unit,
                                     file.repeat.count, <<>>))]
  ELSE IF Typeof(file) = "object" THEN
    LET json == JSONStringify(file)
    IN IF json.ok THEN [ok |-> TRUE, data |-> TextEncoderEncode(json.text)]
       ELSE [ok |-> FALSE, error |-> json.error]
  ELSE [ok |-> FALSE, error |-> Err(MsgUnsupported)]

\* SizeError with the limit itself rejected
SizeError_Exclusive(length) ==
  IF length < 1 THEN [ok |-> FALSE, error |-> Err(MsgTooSmall)]
  ELSE IF length >= MaxFileSize THEN [ok |-> FALSE, error |-> Err(MsgTooLarge)]
  ELSE [ok |-> TRUE]

\* SizeError without the upper limit
SizeError_NoUpper(length) ==
  IF length < 1 THEN [ok |-> FALSE, error |-> Err(MsgTooSmall)]
  ELSE [ok |-> TRUE]

\* lines 238-243: the error of the size check, if any
SizeError(length) ==
  IF length < 1 THEN [ok |-> FALSE, error |-> Err(MsgTooSmall)]
  ELSE IF length > MaxFileSize THEN [ok |-> FALSE, error |-> Err(MsgTooLarge)]
  ELSE [ok |-> TRUE]

\* lines 237-247: size check, then the preflight is requested
Validate(c, data) ==
  LET check == SizeError(data.size)
      c1 == With(c, [data |-> data])
  IN IF ~check.ok THEN Thrown(c1, check.error)
     ELSE Await(c1, "preflight", [fn |-> "preflightUpload", size |-> data.size],
                << >>)

\* lines 211-235: guard and normalisation of the input
UploadFileEnter(c, file, filename) ==
  IF ~isInitialized THEN Thrown(c, NotInitializedError)
  ELSE IF InstanceOfFile(file) THEN
    With(c, [pc |-> "arrayBuffer", file |-> file,
             actualFilename |-> OrElse(filename, file.name)])
  ELSE IF InstanceOfBlob(file) THEN
    With(c, [pc |-> "arrayBuffer", file |-> file, actualFilename |-> filename])
  ELSE LET n == Normalize(file)
           c1 == With(c, [file |-> file, actualFilename |-> filename])
       IN IF n.ok THEN Validate(c1, n.data) ELSE Thrown(c1, n.error)

\* lines 285-293 and 302-305: what the wrappers add to the result of uploadFile
UploadReturn(c, result) ==
  Returned(c, IF c.op = "uploadImage"
                THEN With(result, [type |-> OrElse(c.file.type,
                       Str(<<"i", "m", "a", "g", "e", "/", "u", "n", "k", "n",
                             "o", "w", "n">>))])
              ELSE result)

\* the sizes of the inputs: around both ends of the accepted range
Sizes == {0, 1, MaxFileSize, MaxFileSize + 1}

MimePng == Str(<<"i", "m", "a", "g", "e", "/", "p", "n", "g">>)
NamePng == Str(<<"a", ".", "p", "n", "g">>)
NameTxt == Str(<<"t", "i", "n", "y", ".", "t", "x", "t">>)
NameJson == Str(<<"d", "a", "t", "a", ".", "j", "s", "o", "n">>)

\* the values a caller may pass as the file
UploadInputs ==
  {[t |-> "Buffer", size |-> n] : n \in Sizes}
  \cup {[t |-> "Uint8Array", size |-> n] : n \in Sizes}
  \cup {[t |-> "File", size |-> n, name |-> NamePng, type |-> MimePng] :
          n \in {0, 1}}
  \cup {[t |-> "Blob", size |-> 1, type |-> Str(<<>>)],
        [t |-> "Blob", size |-> MaxFileSize + 1, type |-> MimePng]}
  \cup {Repeat("a", 0), Repeat("a", 1), Repeat("e'", MaxFileSize \div 2),
        Repeat("e'", MaxFileSize \div 2 + 1), Repeat("U+FEFF", 1),
        Repeat("U+FEFF", 2)}
  \cup {[t |-> "object", shape |-> "plain", a |-> Repeat("a", n)] :
          n \in {0, MaxFileSize - 8, MaxFileSize - 7}}
  \cup {[t |-> "object", shape |-> "plain", a |-> Repeat("U+FEFF", 1)]}
  \cup {[t |-> "object", shape |-> "circular"], Null, Undefined,
        [t |-> "number", num |-> 42], Bool(TRUE), [t |-> "function"]}

\* uploadFile, lines 210-247: the synchronous part
uploadFile(file, filename) ==
  /\ call.pc = "idle"
  /\ call' = UploadFileEnter(
       Enter("uploadFile", [file |-> file, filename |-> filename]),
       file, filename)
  /\ UNCHANGED << synapse, isInitialized, inits, PINATA_JWT, store >>

\* uploadImage, lines 284-289: the type check precedes the call of uploadFile
uploadImage(imageFile) ==
  /\ call.pc = "idle"
  /\ LET c == Enter("uploadImage", [imageFile |-> imageFile])
     IN call' =
          IF ~InstanceOfFile(imageFile) /\ ~InstanceOfBlob(imageFile)
            THEN Thrown(c, Err(MsgImageType))
          ELSE UploadFileEnter(c, imageFile,
                 IF "name" \in DOMAIN imageFile THEN imageFile.name
                 ELSE Undefined)
  /\ UNCHANGED << synapse, isInitialized, inits, PINATA_JWT, store >>

\* uploadJSON, lines 302-305: filename defaults to 'data.json'
uploadJSON(jsonData, filename) ==
  /\ call.pc = "idle"
  /\ call' = UploadFileEnter(
       Enter("uploadJSON", [jsonData |-> jsonData, filename |-> filename]),
       jsonData, IF filename = Undefined THEN NameJson ELSE filename)
  /\ UNCHANGED << synapse, isInitialized, inits, PINATA_JWT, store >>

\* lines 220 and 223: file.arrayBuffer() resolved
arrayBufferResolved ==
  /\ call.pc = "arrayBuffer"
  /\ call' = Validate(call, [t |-> "Uint8Array", size |-> call.file.size])
  /\ UNCHANGED << synapse, isInitialized, inits, PINATA_JWT, store >>

\* file.arrayBuffer() rejected (the file became unreadable)
arrayBufferRejected(e) ==
  /\ call.pc = "arrayBuffer"
  /\ call' = Thrown(call, e)
  /\ UNCHANGED << synapse, isInitialized, inits, PINATA_JWT, store >>

\* preflightResolved without the test of the allowance
preflightResolved_Unchecked(preflight) ==
  /\ call.pc = "preflight"
  /\ call' = Await(call, "upload", [fn |-> "upload"], [preflight |-> preflight])
  /\ UNCHANGED << synapse, isInitialized, inits, PINATA_JWT, store >>

\* lines 247-253: the preflight resolved; the upload is requested when the
\* allowance is sufficient
preflightResolved(preflight) ==
  /\ call.pc = "preflight"
  /\ call' = IF ~preflight.allowanceCheck.sufficient
               THEN Thrown(With(call, [preflight |-> preflight]),
                           Err(MsgInsufficient))
             ELSE Await(call, "upload", [fn |-> "upload"],
                        [preflight |-> preflight])
  /\ UNCHANGED << synapse, isInitialized, inits, PINATA_JWT, store >>

\* the preflight rejected
preflightRejected(e) ==
  /\ call.pc = "preflight"
  /\ call' = Thrown(call, e)
  /\ UNCHANGED << synapse, isInitialized, inits, PINATA_JWT, store >>

\* content identifiers the network may assign
PieceCids == {Str(<<"b", "a", "f", "k">>)}

\* line 253: the network after synapse.storage.upload(data) resolved with
\* pieceCid; a faithful network keeps the bytes under that identifier, any
\* other network promises nothing about them
Stored(pieceCid, data) ==
  IF store.faithful
    THEN [store EXCEPT !.pieces =
            {p \in @ : p.pieceCid # pieceCid}
              \cup {[pieceCid |-> pieceCid, data |-> data]}]
  ELSE store

\* lines 255-260: the record built from the upload result
UploadRecord(c, uploadResult) ==
  LET result == [pieceCid |-> uploadResult.pieceCid, size |-> c.data.size,
                 timestamp |-> "Date.now()"]
  IN IF Truthy(c.actualFilename)
       THEN With(result, [filename |-> c.actualFilename])
     ELSE result

\* lines 253-271 and 169-188: the upload resolved; without a token pinToIPFS
\* returns null at once and uploadFile returns, otherwise the pinning request
\* is sent
uploadResolved(uploadResult) ==
  /\ call.pc = "upload"
  /\ LET result == UploadRecord(call, uploadResult)
     IN call' =
          IF ~Truthy(PINATA_JWT)
            THEN UploadReturn(With(call, [result |-> result]), result)
          ELSE Await(call, "pinFetch",
                     [fn |-> "fetch", hashToPin |-> result.pieceCid,
                      name |-> OrElse(call.actualFilename,
                                      Str(<<"f", "i", "l", "e">>)),
                      bearer |-> PINATA_JWT],
                     [result |-> result])
  /\ store' = Stored(uploadResult.pieceCid, call.data)
  /\ UNCHANGED << synapse, isInitialized, inits, PINATA_JWT >>

\* the upload rejected
uploadRejected(e) ==
  /\ call.pc = "upload"
  /\ call' = Thrown(call, e)
  /\ UNCHANGED << synapse, isInitialized, inits, PINATA_JWT, store >>

\* line 190: the pinning response arrived; its body is being read
fetchResolved(res) ==
  /\ call.pc = "pinFetch"
  /\ call' = Await(call, "pinJson", [fn |-> "res.json"], [res |-> res])
  /\ UNCHANGED << synapse, isInitialized, inits, PINATA_JWT, store >>

\* fetchRejected as if pinToIPFS had no catch: the upload rejects
fetchRejected_Propagates ==
  /\ call.pc = "pinFetch"
  /\ call' = Thrown(call, Err(<<"f", "e", "t", "c", "h", " ", "f", "a", "i", "l",
                               "e", "d">>))
  /\ UNCHANGED << synapse, isInitialized, inits, PINATA_JWT, store >>

\* lines 198-201 and 266-271: the pinning request threw; pinToIPFS returns null
fetchRejected ==
  /\ call.pc = "pinFetch"
  /\ call' = UploadReturn(call, call.result)
  /\ UNCHANGED << synapse, isInitialized, inits, PINATA_JWT, store >>

\* lines 191-197 and 266-271: the body was parsed
jsonResolved(pinData) ==
  /\ call.pc = "pinJson"
  /\ call' =
       IF call.res.ok
         THEN LET result == With(call.result,
                    [gatewayURL |->
                       Str(GatewayPrefix \o call.result.pieceCid.chars)])
              IN UploadReturn(With(call, [pinData |-> pinData,
                                          result |-> result]), result)
       ELSE UploadReturn(With(call, [pinData |-> pinData]), call.result)
  /\ UNCHANGED << synapse, isInitialized, inits, PINATA_JWT, store >>

\* lines 198-201: the body could not be parsed
jsonRejected ==
  /\ call.pc = "pinJson"
  /\ call' = UploadReturn(call, call.result)
  /\ UNCHANGED << synapse, isInitialized, inits, PINATA_JWT, store >>

\* the steps of an upload
UploadNext ==
  \/ \E file \in UploadInputs, filename \in {Undefined, NameTxt} :
       uploadFile(file, filename)
  \/ \E imageFile \in UploadInputs : uploadImage(imageFile)
  \/ \E jsonData \in UploadInputs, filename \in {Undefined, NameTxt} :
       uploadJSON(jsonData, filename)
  \/ arrayBufferResolved
  \/ \E e \in NetworkErrors : arrayBufferRejected(e)
  \/ \E sufficient \in BOOLEAN :
       preflightResolved([allowanceCheck |-> [sufficient |-> sufficient]])
  \/ \E e \in NetworkErrors : preflightRejected(e)
  \/ \E cid \in PieceCids : uploadResolved([pieceCid |-> cid])
  \/ \E e \in NetworkErrors : uploadRejected(e)
  \/ \E ok \in BOOLEAN : fetchResolved([ok |-> ok])
  \/ fetchRejected
  \/ jsonResolved([t |-> "object", shape |-> "pinata"])
  \/ jsonRejected

\* ------------------------------------------------------------------------
\* setupWallet(depositAmount, rateAllowance, lockupAllowance, maxLockupDays)
\* ------------------------------------------------------------------------

\* lines 132, 136: decimals of the token
TokenDecimals == 18

\* line 152: epochs in a day
EpochsPerDay == 2880

\* a JavaScript number holding the integer n, and the number NaN
Num(n) == [t |-> "number", num |-> n]
NaN == [t |-> "NaN"]

\* the JavaScript number m * 10^e for 1 <= m and m * 5^e < 2^53, which a
\* double holds exactly (1e20 is NumE(1, 20))
NumE(m, e) == [t |-> "number", num |-> m, exp10 |-> e]

\* a bigint, by sign and decimal digits (most significant first, no leading
\* zero except for 0)
BigIntOf(neg, digits) == [t |-> "bigint", neg |-> neg, digits |-> digits]

DigitChars == <<"0", "1", "2", "3", "4", "5", "6", "7", "8", "9">>

\* the decimal digits of the natural number n
RECURSIVE IntToDigits(_)
IntToDigits(n) ==
  IF n < 10 THEN <<n>> ELSE Append(IntToDigits(n \div 10), n % 10)

\* digits without leading zeros
RECURSIVE StripLeadingZeros(_)
StripLeadingZeros(ds) ==
  IF Len(ds) > 1 /\ Head(ds) = 0 THEN StripLeadingZeros(Tail(ds)) ELSE ds

\* digits without trailing zeros, keeping at least one digit
RECURSIVE StripTrailingZeros(_)
StripTrailingZeros(ds) ==
  IF Len(ds) > 1 /\ ds[Len(ds)] = 0
    THEN StripTrailingZeros(SubSeq(ds, 1, Len(ds) - 1))
  ELSE ds

Zeros(n) == [k \in 1..n |-> 0]

\* Number.prototype.toString for the numbers of the model: the decimal
\* digits of an integer below 10^21, and the exponent form d.ddde+n from
\* 10^21 on
NumberToString(v) ==
  IF v.t = "NaN" THEN <<"N", "a", "N">>
  ELSE IF "exp10" \in DOMAIN v THEN
    LET ds == IntToDigits(v.num)
        Chars(xs) == [k \in 1..Len(xs) |-> DigitChars[xs[k] + 1]]
        sig == StripTrailingZeros(ds)
        n == Len(ds) + v.exp10 - 1
    IN IF Len(ds) + v.exp10 <= 21 THEN Chars(ds \o Zeros(v.exp10))
       ELSE Chars(<<Head(sig)>>)
            \o (IF Len(sig) > 1 THEN <<".">> \o Chars(Tail(sig)) ELSE <<>>)
            \o <<"e", "+">> \o Chars(IntToDigits(n))
  ELSE IF v.num < 0
    THEN <<"-">> \o [k \in 1..Len(IntToDigits(-v.num)) |->
                       DigitChars[IntToDigits(-v.num)[k] + 1]]
  ELSE [k \in 1..Len(IntToDigits(v.num)) |->
          DigitChars[IntToDigits(v.num)[k] + 1]]

\* BigInt(v) for a number: a RangeError for NaN
ToBigInt(v) ==
  IF v.t = "NaN"
    THEN [ok |-> FALSE,
          error |-> [t |-> "RangeError", message |-> <<"N", "a", "N">>]]
  ELSE IF "exp10" \in DOMAIN v
    THEN [ok |-> TRUE,
          value |-> BigIntOf(FALSE, IntToDigits(v.num) \o Zeros(v.exp10))]
  ELSE [ok |-> TRUE,
        value |-> BigIntOf(v.num < 0,
                           IntToDigits(IF v.num < 0 THEN -v.num ELSE v.num))]

\* a * b for a bigint a and a small natural b
BigIntTimes(a, b) ==
  LET RECURSIVE Value(_)
      Value(ds) == IF ds = <<>> THEN 0
                   ELSE 10 * Value(SubSeq(ds, 1, Len(ds) - 1)) + ds[Len(ds)]
      product == Value(a.digits) * b
  IN BigIntOf(a.neg /\ product # 0, IntToDigits(product))

\* ethers.parseUnits(value, decimals): value must match
\* /^(-?)([0-9]*)\.?([0-9]*)$/ with at least one digit and at most `decimals`
\* fraction digits; the result is the integer whole*10^decimals + fraction
ParseUnits(value, decimals) ==
  LET neg == value # <<>> /\ Head(value) = "-"
      body == IF neg THEN Tail(value) ELSE value
      dots == {k \in 1..Len(body) : body[k] = "."}
      dot == IF dots = {} THEN Len(body) + 1
             ELSE CHOOSE k \in dots : \A j \in dots : k <= j
      whole == SubSeq(body, 1, dot - 1)
      frac == SubSeq(body, dot + 1, Len(body))
      IsDigits(cs) == \A k \in 1..Len(cs) : \E d \in 1..10 : DigitChars[d] = cs[k]
      Digit(c) == (CHOOSE d \in 1..10 : DigitChars[d] = c) - 1
      ToDigits(cs) == [k \in 1..Len(cs) |-> Digit(cs[k])]
  IN IF /\ IsDigits(whole) /\ IsDigits(frac)
        /\ Len(whole) + Len(frac) > 0
        /\ Len(frac) <= decimals
       THEN LET ds == StripLeadingZeros(ToDigits(whole) \o ToDigits(frac)
                                        \o Zeros(decimals - Len(frac)))
            IN [ok |-> TRUE, value |-> BigIntOf(neg /\ ds # <<0>>, ds)]
     ELSE [ok |-> FALSE,
           error |-> TypeErr(<<"i", "n", "v", "a", "l", "i", "d", " ">> \o value)]

\* ethers.formatUnits(value, decimals): the decimal string of
\* value / 10^decimals, with at least one and no needless fraction digit
FormatUnits(value, decimals) ==
  LET padded == IF Len(value.digits) > decimals THEN value.digits
                ELSE Zeros(decimals + 1 - Len(value.digits)) \o value.digits
      whole == SubSeq(padded, 1, Len(padded) - decimals)
      frac == StripTrailingZeros(SubSeq(padded, Len(padded) - decimals + 1,
                                        Len(padded)))
      Chars(ds) == [k \in 1..Len(ds) |-> DigitChars[ds[k] + 1]]
  IN Str((IF value.neg THEN <<"-">> ELSE <<>>)
         \o Chars(whole) \o <<".">> \o Chars(frac))

\* line 132: parse = amount => ethers.parseUnits(amount.toString(), 18)
parse(amount) == ParseUnits(NumberToString(amount), TokenDecimals)

\* the call c evaluates parse(amount): the conversion is recorded, and its
\* error, if any, is thrown
ParseStep(c, amount) ==
  With(c, [trace |-> Append(c.trace,
             [fn |-> "parseUnits", value |-> NumberToString(amount)])])

\* balances the payments contract may report
Balances ==
  {BigIntOf(FALSE, <<0>>),
   BigIntOf(FALSE, <<1, 5>> \o Zeros(TokenDecimals - 1))}

\* setupWallet, lines 125-135: guard, then the wallet balance is queried;
\* an argument that is undefined takes its default
setupWallet(depositAmount, rateAllowance, lockupAllowance, maxLockupDays) ==
  /\ call.pc = "idle"
  /\ LET Default(v, d) == IF v = Undefined THEN Num(d) ELSE v
         c == Enter("setupWallet",
                [depositAmount |-> Default(depositAmount, 10),
                 rateAllowance |-> Default(rateAllowance, 10),
                 lockupAllowance |-> Default(lockupAllowance, 1000),
                 maxLockupDays |-> Default(maxLockupDays, 30)])
     IN call' = IF ~isInitialized THEN Thrown(c, NotInitializedError)
                ELSE Await(c, "walletBalance", [fn |-> "walletBalance"], << >>)
  /\ UNCHANGED << synapse, isInitialized, inits, PINATA_JWT, store >>

\* lines 135-140: the wallet balance arrived (it is only logged); the deposit
\* amount is converted and the deposit is submitted
walletBalanceResolved(walletBalance) ==
  /\ call.op = "setupWallet" /\ call.pc = "walletBalance"
  /\ LET c2 == ParseStep(call, call.args.depositAmount)
         amount == parse(call.args.depositAmount)
     IN call' = IF ~amount.ok THEN Thrown(c2, amount.error)
                ELSE Await(c2, "deposit",
                           [fn |-> "deposit", amount |-> amount.value], << >>)
  /\ UNCHANGED << synapse, isInitialized, inits, PINATA_JWT, store >>

\* depositResolved without waiting for the confirmation of the deposit
depositResolved_NoWait ==
  /\ call.op = "setupWallet" /\ call.pc = "deposit"
  /\ call' = Await(call, "warmStorageAddress",
                   [fn |-> "getWarmStorageAddress"], << >>)
  /\ UNCHANGED << synapse, isInitialized, inits, PINATA_JWT, store >>

\* lines 140-142: the deposit was submitted; its confirmation is awaited
depositResolved ==
  /\ call.op = "setupWallet" /\ call.pc = "deposit"
  /\ call' = Await(call, "depositWait", [fn |-> "depositTx.wait"], << >>)
  /\ UNCHANGED << synapse, isInitialized, inits, PINATA_JWT, store >>

\* lines 142-147: the deposit is confirmed; the service address is looked up
depositWaitResolved ==
  /\ call.op = "setupWallet" /\ call.pc = "depositWait"
  /\ call' = Await(call, "warmStorageAddress",
                   [fn |-> "getWarmStorageAddress"], << >>)
  /\ UNCHANGED << synapse, isInitialized, inits, PINATA_JWT, store >>

\* lines 147-153: the address arrived; the allowances and the lockup period
\* are converted, in this order, and the approval is submitted
warmStorageAddressResolved(warmStorageAddress) ==
  /\ call.op = "setupWallet" /\ call.pc = "warmStorageAddress"
  /\ LET c1 == ParseStep(call, call.args.rateAllowance)
         rate == parse(call.args.rateAllowance)
         c2 == ParseStep(c1, call.args.lockupAllowance)
         lockup == parse(call.args.lockupAllowance)
         days == ToBigInt(call.args.maxLockupDays)
     IN call' =
          IF ~rate.ok THEN Thrown(c1, rate.error)
          ELSE IF ~lockup.ok THEN Thrown(c2, lockup.error)
          ELSE IF ~days.ok THEN Thrown(c2, days.error)
          ELSE Await(c2, "approve",
                     [fn |-> "approveService",
                      service |-> warmStorageAddress,
                      rateAllowance |-> rate.value,
                      lockupAllowance |-> lockup.value,
                      maxLockupPeriod |-> BigIntTimes(days.value, EpochsPerDay)],
                     << >>)
  /\ UNCHANGED << synapse, isInitialized, inits, PINATA_JWT, store >>

\* lines 148-155: the approval was submitted; its confirmation is awaited
approveResolved ==
  /\ call.op = "setupWallet" /\ call.pc = "approve"
  /\ call' = Await(call, "approveWait", [fn |-> "approveTx.wait"], << >>)
  /\ UNCHANGED << synapse, isInitialized, inits, PINATA_JWT, store >>

\* lines 155-159: the approval is confirmed; the final balance is queried
approveWaitResolved ==
  /\ call.op = "setupWallet" /\ call.pc = "approveWait"
  /\ call' = Await(call, "finalBalance", [fn |-> "balance"], << >>)
  /\ UNCHANGED << synapse, isInitialized, inits, PINATA_JWT, store >>

\* lines 159-162: the balance arrived (it is only logged); true is returned
finalBalanceResolved(availableBalance) ==
  /\ call.op = "setupWallet" /\ call.pc = "finalBalance"
  /\ call' = Returned(call, Bool(TRUE))
  /\ UNCHANGED << synapse, isInitialized, inits, PINATA_JWT, store >>

WalletAwaits ==
  {"walletBalance", "deposit", "depositWait", "warmStorageAddress", "approve",
   "approveWait", "finalBalance"}

\* lines 163-166: the awaited call rejected; the error is logged and rethrown
walletStepRejected(e) ==
  /\ call.op = "setupWallet" /\ call.pc \in WalletAwaits
  /\ call' = Thrown(call, e)
  /\ UNCHANGED << synapse, isInitialized, inits, PINATA_JWT, store >>

\* the steps of a wallet setup
WalletNext ==
  \/ \E d \in {Undefined, Num(0), Num(1), NumE(1, 20), NumE(1, 21), NaN},
        r \in {Num(1), NaN}, l \in {Num(10), NaN}, days \in {Num(1), NaN} :
       setupWallet(d, r, l, days)
  \/ \E b \in Balances : walletBalanceResolved(b)
  \/ depositResolved
  \/ depositWaitResolved
  \/ warmStorageAddressResolved(Str(<<"0", "x", "w", "s">>))
  \/ approveResolved
  \/ approveWaitResolved
  \/ \E b \in Balances : finalBalanceResolved(b)
  \/ \E e \in NetworkErrors : walletStepRejected(e)

\* ------------------------------------------------------------------------
\* downloadFile(pieceCid, options), downloadImage, downloadJSON
\* ------------------------------------------------------------------------

\* new TextDecoder().decode(data): the text of well-formed UTF-8, without
\* the byte order mark the data starts with if any (ignoreBOM is false by
\* default); every byte of other data decodes to U+FFFD
TextDecoderDecode(data) ==
  IF "utf8" \in DOMAIN data THEN
    LET text == data.utf8
    IN [t |-> "string",
        text |-> IF text.pre = <<>> /\ text.unit = "U+FEFF" /\ text.count > 0
                   THEN [text EXCEPT !.count = @ - 1]
                 ELSE text]
  ELSE [t |-> "string", text |-> Text(<<>>, "U+FFFD", data.size, <<>>)]

\* JSON.parse(text) for the texts of the model: 'null', and '{"a":"s"}' for
\* a string s without quote or backslash; anything else is a SyntaxError
JSONParse(string) ==
  LET text == string.text
  IN IF text = Text(<<"n", "u", "l", "l">>, "a", 0, <<>>)
       THEN [ok |-> TRUE, value |-> Null]
     ELSE IF /\ text.pre = <<"{", "\"", "a", "\"", ":", "\"">>
             /\ text.post = <<"\"", "}">>
       THEN [ok |-> TRUE,
             value |-> [t |-> "object", shape |-> "plain",
                        a |-> Repeat(text.unit, text.count)]]
     ELSE [ok |-> FALSE,
           error |-> [t |-> "SyntaxError",
                      message |-> <<"U", "n", "e", "x", "p", "e", "c", "t",
                                    "e", "d">>]]

\* ConvertDownload with the text shape left undecoded
ConvertDownload_TextRaw(data, returnAs) ==
  CASE returnAs = "blob" ->
         [ok |-> TRUE,
          value |-> [t |-> "Blob", size |-> data.size, type |-> Str(<<>>),
                     parts |-> data]]
    [] returnAs = "text" -> [ok |-> TRUE, value |-> data]
    [] returnAs = "json" -> JSONParse(TextDecoderDecode(data))
    [] OTHER -> [ok |-> TRUE, value |-> data]

\* lines 325-336: conversion of the downloaded bytes to the requested shape
ConvertDownload(data, returnAs) ==
  CASE returnAs = "blob" ->
         [ok |-> TRUE,
          value |-> [t |-> "Blob", size |-> data.size, type |-> Str(<<>>),
                     parts |-> data]]
    [] returnAs = "text" -> [ok |-> TRUE, value |-> TextDecoderDecode(data)]
    [] returnAs = "json" -> JSONParse(TextDecoderDecode(data))
    [] OTHER -> [ok |-> TRUE, value |-> data]

\* the values of options.returnAs; Undefined takes the default 'uint8array'
ReturnShapes == {"undefined", "uint8array", "blob", "text", "json", "xml"}

\* the bytes the network may return for a content identifier
Payloads ==
  {TextEncoderEncode(Text(<<"{", "\"", "a", "\"", ":", "\"">>, "e'", 1,
                          <<"\"", "}">>)),
   TextEncoderEncode(Text(<<>>, "a", 1, <<>>)),
   [t |-> "Uint8Array", size |-> 1]}

\* lines 315-323: guard, then the download is requested
DownloadFileEnter(c, pieceCid, returnAs) ==
  IF ~isInitialized THEN Thrown(c, NotInitializedError)
  ELSE Await(c, "download", [fn |-> "download", pieceCid |-> pieceCid],
             [returnAs |-> IF returnAs = "undefined" THEN "uint8array"
                           ELSE returnAs])

\* downloadFile, lines 314-323
downloadFile(pieceCid, returnAs) ==
  /\ call.pc = "idle"
  /\ call' = DownloadFileEnter(
       Enter("downloadFile", [pieceCid |-> pieceCid, returnAs |-> returnAs]),
       pieceCid, returnAs)
  /\ UNCHANGED << synapse, isInitialized, inits, PINATA_JWT, store >>

\* downloadImage, lines 348-350
downloadImage(pieceCid) ==
  /\ call.pc = "idle"
  /\ call' = DownloadFileEnter(
       Enter("downloadImage", [pieceCid |-> pieceCid]), pieceCid, "blob")
  /\ UNCHANGED << synapse, isInitialized, inits, PINATA_JWT, store >>

\* downloadJSON, lines 363-365
downloadJSON(pieceCid) ==
  /\ call.pc = "idle"
  /\ call' = DownloadFileEnter(
       Enter("downloadJSON", [pieceCid |-> pieceCid]), pieceCid, "json")
  /\ UNCHANGED << synapse, isInitialized, inits, PINATA_JWT, store >>

\* line 323: the bytes synapse.storage.download(pieceCid) of the call in
\* flight may resolve with: a faithful network returns what was uploaded
\* under the identifier, any other network returns what it likes
Downloadable ==
  IF store.faithful
    THEN {p.data : p \in {q \in store.pieces : q.pieceCid = call.args.pieceCid}}
  ELSE Payloads

\* lines 323-341, 350-351, 365: the download resolved; a conversion error is
\* rethrown, downloadImage wraps the blob in an object URL
downloadResolved(data) ==
  /\ call.op \in {"downloadFile", "downloadImage", "downloadJSON"}
  /\ call.pc = "download"
  /\ data \in Downloadable
  /\ LET converted == ConvertDownload(data, call.returnAs)
     IN call' =
          IF ~converted.ok THEN Thrown(With(call, [data |-> data]),
                                       converted.error)
          ELSE IF call.op = "downloadImage"
            THEN Returned(With(call, [data |-> data]),
                          [t |-> "string", objectURL |-> converted.value])
          ELSE Returned(With(call, [data |-> data]), converted.value)
  /\ UNCHANGED << synapse, isInitialized, inits, PINATA_JWT, store >>

\* lines 337-340, 352-355, 366-369: the download rejected; the error is
\* logged and rethrown
downloadRejected(e) ==
  /\ call.op \in {"downloadFile", "downloadImage", "downloadJSON"}
  /\ call.pc = "download"
  /\ call' = Thrown(With(call, [rejection |-> e]), e)
  /\ UNCHANGED << synapse, isInitialized, inits, PINATA_JWT, store >>

\* the bytes a download may carry: those of Payloads and those of an upload
Downloads ==
  Payloads
  \cup {Normalize(x).data : x \in {y \in UploadInputs : Normalize(y).ok}}
  \cup {[t |-> "Uint8Array", size |-> x.size] :
          x \in {y \in UploadInputs : InstanceOfBlob(y)}}

\* the steps of a download
DownloadNext ==
  \/ \E cid \in PieceCids, returnAs \in ReturnShapes : downloadFile(cid, returnAs)
  \/ \E cid \in PieceCids : downloadImage(cid)
  \/ \E cid \in PieceCids : downloadJSON(cid)
  \/ \E data \in Downloads : downloadResolved(data)
  \/ \E e \in NetworkErrors : downloadRejected(e)

\* ------------------------------------------------------------------------
\* getStorageInfo()
\* ------------------------------------------------------------------------

\* a sub-query that has not settled
Pending == [t |-> "pending"]

\* the three sub-queries of lines 383-385
SubQueries == {"balance", "accountInfo", "storageInfo"}

\* lines 415-419: the record returned when the composition throws
DefaultInfo ==
  [balance |-> Str(<<"0">>),
   accountInfo |-> [availableFunds |-> Str(<<"0">>),
                    lockedFunds |-> Str(<<"0">>),
                    totalFunds |-> Str(<<"0">>)],
   storageInfo |-> [pricing |-> [t |-> "object", shape |-> "empty"],
                    providers |-> Num(0),
                    network |-> Str(<<"u", "n", "k", "n", "o", "w", "n">>)]]

\* the field f of the object o, undefined when absent
Field(o, f) == IF f \in DOMAIN o THEN o[f] ELSE Undefined

\* v ? ethers.formatUnits(v, 18) : "0"
FormatOrZero(v) ==
  IF Truthy(v) THEN FormatUnits(v, TokenDecimals) ELSE Str(<<"0">>)

\* lines 388-412: the record composed from the three settled sub-queries
\* (null for a sub-query that failed)
ComposeInfo(balance, accountInfo, storageInfo) ==
  [balance |-> FormatOrZero(balance),
   accountInfo |->
     IF Truthy(accountInfo)
       THEN [availableFunds |-> FormatOrZero(Field(accountInfo, "availableFunds")),
             lockedFunds |-> FormatOrZero(Field(accountInfo, "lockedFunds")),
             totalFunds |-> FormatOrZero(Field(accountInfo, "totalFunds"))]
     ELSE [availableFunds |-> Str(<<"0">>), lockedFunds |-> Str(<<"0">>),
           totalFunds |-> Str(<<"0">>)],
   storageInfo |->
     IF Truthy(storageInfo)
       THEN [pricing |->
               IF Field(storageInfo, "pricing") \in {Undefined, Null}
                 THEN [t |-> "object", shape |-> "empty"]
               ELSE storageInfo.pricing,
             providers |->
               IF Field(storageInfo, "providers").t = "array"
                 THEN Num(storageInfo.providers.length)
               ELSE Num(0),
             network |->
               IF Field(storageInfo, "serviceParameters") \in {Undefined, Null}
                  \/ Field(storageInfo.serviceParameters, "network")
                       \in {Undefined, Null}
                 THEN Str(<<"u", "n", "k", "n", "o", "w", "n">>)
               ELSE storageInfo.serviceParameters.network]
     ELSE [pricing |-> [t |-> "object", shape |-> "empty"],
           providers |-> Num(0),
           network |-> Str(<<"u", "n", "k", "n", "o", "w", "n">>)]]

OneAndHalf == BigIntOf(FALSE, <<1, 5>> \o Zeros(TokenDecimals - 1))

\* the values with which each sub-query may resolve
QueryResults ==
  [balance |-> Balances,
   accountInfo |->
     {[t |-> "object", availableFunds |-> OneAndHalf,
       lockedFunds |-> BigIntOf(FALSE, <<0>>), totalFunds |-> OneAndHalf],
      [t |-> "object", availableFunds |-> OneAndHalf]},
   storageInfo |->
     {[t |-> "object",
       pricing |-> [t |-> "object", shape |-> "pricing"],
       providers |-> [t |-> "array", length |-> 2],
       serviceParameters |->
         [t |-> "object",
          network |-> Str(<<"c", "a", "l", "i", "b", "r", "a", "t", "i", "o", "n">>)]],
      [t |-> "object", providers |-> Num(2)]}]

\* getStorageInfo, lines 376-386: guard, then the three sub-queries are
\* dispatched at once
getStorageInfo ==
  /\ call.pc = "idle"
  /\ LET c == Enter("getStorageInfo", << >>)
     IN call' =
          IF ~isInitialized THEN Thrown(c, NotInitializedError)
          ELSE With(c, [pc |-> "queries",
                        trace |-> <<[fn |-> "balance"], [fn |-> "accountInfo"],
                                    [fn |-> "getStorageInfo"]>>,
                        settled |-> [q \in SubQueries |-> Pending],
                        order |-> << >>])
  /\ UNCHANGED << synapse, isInitialized, inits, PINATA_JWT, store >>

\* querySettled as if the sub-queries had no .catch: Promise.all rejects with
\* the first failure, and the outer catch is missing too
querySettled_FailFast(q, v) ==
  /\ call.op = "getStorageInfo" /\ call.pc = "queries"
  /\ call.settled[q] = Pending
  /\ LET settled == [call.settled EXCEPT ![q] = v]
         c == With(call, [settled |-> settled, order |-> Append(call.order, q)])
     IN call' =
          IF v = Null THEN Thrown(c, Err(<<"q", "u", "e", "r", "y">>))
          ELSE IF \E r \in SubQueries : settled[r] = Pending THEN c
          ELSE Returned(c, ComposeInfo(settled.balance, settled.accountInfo,
                                       settled.storageInfo))
  /\ UNCHANGED << synapse, isInitialized, inits, PINATA_JWT, store >>

\* lines 382-412: the sub-query q settled with v (null when it rejected, by
\* its .catch); when it is the last one the record is composed and returned
querySettled(q, v) ==
  /\ call.op = "getStorageInfo" /\ call.pc = "queries"
  /\ call.settled[q] = Pending
  /\ LET settled == [call.settled EXCEPT ![q] = v]
         c == With(call, [settled |-> settled, order |-> Append(call.order, q)])
     IN call' =
          IF \E r \in SubQueries : settled[r] = Pending THEN c
          ELSE Returned(c, ComposeInfo(settled.balance, settled.accountInfo,
                                       settled.storageInfo))
  /\ UNCHANGED << synapse, isInitialized, inits, PINATA_JWT, store >>

\* the steps of a storage info query
InfoNext ==
  \/ getStorageInfo
  \/ \E q \in SubQueries : \E v \in QueryResults[q] : querySettled(q, v)
  \/ \E q \in SubQueries : querySettled(q, Null)

\* ------------------------------------------------------------------------
\* checkFileExists(pieceCid)
\* ------------------------------------------------------------------------

\* s.includes(sub)
Includes(s, sub) ==
  \E k \in 1..(Len(s) - Len(sub) + 1) : SubSeq(s, k, k + Len(sub) - 1) = sub

\* the values with which the download may reject: errors with a message,
\* a thrown string, an error object without message, and undefined
DownloadRejections ==
  {Err(<<"P", "i", "e", "c", "e", " ", "n", "o", "t", " ", "f", "o", "u", "n", "d">>),
   Err(<<"H", "T", "T", "P", " ", "4", "0", "4">>),
   Err(<<"N", "o", "t", " ", "F", "o", "u", "n", "d">>),
   Err(<<"t", "i", "m", "e", "o", "u", "t">>),
   Err(<<>>),
   Str(<<"t", "i", "m", "e", "o", "u", "t">>),
   [t |-> "object", code |-> Num(500)],
   Undefined}

\* lines 438-443: the outcome of the catch block for the rejection error
ExistsCatch(error) ==
  IF error \in {Undefined, Null}
    THEN [ok |-> FALSE,
          error |-> TypeErr(<<"r", "e", "a", "d", "i", "n", "g", " ", "'", "m",
                              "e", "s", "s", "a", "g", "e", "'">>)]
  ELSE IF "message" \notin DOMAIN error
    THEN [ok |-> FALSE,
          error |-> TypeErr(<<"r", "e", "a", "d", "i", "n", "g", " ", "'", "i",
                              "n", "c", "l", "u", "d", "e", "s", "'">>)]
  ELSE IF \/ Includes(error.message, <<"n", "o", "t", " ", "f", "o", "u", "n", "d">>)
          \/ Includes(error.message, <<"4", "0", "4">>)
    THEN [ok |-> TRUE, value |-> Bool(FALSE)]
  ELSE [ok |-> FALSE, error |-> error]

\* checkFileExists, lines 429-436: guard, then the download is requested
checkFileExists(pieceCid) ==
  /\ call.pc = "idle"
  /\ LET c == Enter("checkFileExists", [pieceCid |-> pieceCid])
     IN call' =
          IF ~isInitialized THEN Thrown(c, NotInitializedError)
          ELSE Await(c, "download", [fn |-> "download", pieceCid |-> pieceCid],
                     << >>)
  /\ UNCHANGED << synapse, isInitialized, inits, PINATA_JWT, store >>

\* line 437: the download resolved
existsResolved ==
  /\ call.op = "checkFileExists" /\ call.pc = "download"
  /\ call' = Returned(call, Bool(TRUE))
  /\ UNCHANGED << synapse, isInitialized, inits, PINATA_JWT, store >>

\* lines 438-443: the download rejected
existsRejected(error) ==
  /\ call.op = "checkFileExists" /\ call.pc = "download"
  /\ LET outcome == ExistsCatch(error)
         c == With(call, [rejection |-> error])
     IN call' = IF outcome.ok THEN Returned(c, outcome.value)
                ELSE Thrown(c, outcome.error)
  /\ UNCHANGED << synapse, isInitialized, inits, PINATA_JWT, store >>

\* the steps of an existence check
ExistsNext ==
  \/ \E cid \in PieceCids : checkFileExists(cid)
  \/ existsResolved
  \/ \E error \in DownloadRejections : existsRejected(error)

\* ------------------------------------------------------------------------
\* Specification
\* ------------------------------------------------------------------------

\* constructor, lines 74-77, and the singleton of line 448
Init ==
  /\ synapse = Null
  /\ isInitialized = FALSE
  /\ inits = [i \in Inits |-> IdleInit]
  /\ call = IdleCall
  /\ PINATA_JWT \in {Undefined, Str(<<"j", "w", "t">>)}
  /\ store = [faithful |-> FALSE, pieces |-> {}]

\* the steps of the initialize calls of the callers in S
InitializeNext(S) ==
  \/ \E i \in S, options \in InitOptions : initialize(i, options)
  \/ \E i \in S : createResolved(i)
  \/ \E i \in S, e \in CreateErrors : createRejected(i, e)
  \/ \E i \in S : initializeSettled(i)

Next ==
  \/ InitializeNext({1})
  \/ UploadNext
  \/ WalletNext
  \/ DownloadNext
  \/ InfoNext
  \/ ExistsNext
  \/ callSettled

Spec == Init /\ [][Next]_vars

\* the session under concurrent initialize calls of all callers, observed
\* through existence checks
NextInitialize ==
  \/ InitializeNext(Inits)
  \/ ExistsNext
  \/ callSettled

SpecInitialize == Init /\ [][NextInitialize]_vars

\* the session in front of a network that returns the uploaded bytes for the
\* identifier it assigned: uploads followed by downloads
InitRoundTrip ==
  /\ synapse = Null
  /\ isInitialized = FALSE
  /\ inits = [i \in Inits |-> IdleInit]
  /\ call = IdleCall
  /\ PINATA_JWT \in {Undefined, Str(<<"j", "w", "t">>)}
  /\ store = [faithful |-> TRUE, pieces |-> {}]

NextRoundTrip ==
  \/ InitializeNext({1})
  \/ UploadNext
  \/ DownloadNext
  \/ callSettled

SpecRoundTrip == InitRoundTrip /\ [][NextRoundTrip]_vars

\* ------------------------------------------------------------------------
\* Properties
\* ------------------------------------------------------------------------

UploadOps == {"uploadFile", "uploadImage", "uploadJSON"}

\* the names of the external calls the call in flight has issued, in order
TraceNames == [k \in 1..Len(call.trace) |-> call.trace[k].fn]

\* a step in which a public method other than initialize is called
CallEntered == call.pc = "idle" /\ call'.pc # "idle"

\* C1: on a session that is not initialized, a call of any public method
\* other than initialize, with any arguments, rejects with the
\* initialization error and issues no external call.
C1_UninitializedCallsFail ==
  [][(CallEntered /\ ~isInitialized) =>
       /\ call'.pc = "thrown"
       /\ call'.error = Err(MsgNotInitialized)
       /\ call'.trace = << >>]_vars

\* a step in which the initialize call of caller i fails
InitializeFailed(i) == inits[i].pc # "thrown" /\ inits'[i].pc = "thrown"

\* a call that reaches the isInitialized guard of lines 126, 211, 315, 377 or
\* 430 (uploadImage reaches it through uploadFile when its argument is a File
\* or a Blob)
ReachesGuard(c) ==
  c.op = "uploadImage" => InstanceOfBlob(c.args.imageFile)

\* C2: when initialize fails, because neither a privateKey nor a provider is
\* supplied or because Synapse.create rejects, the caller gets the original
\* error and the session state is left as it was; on a session left
\* uninitialized, every call that reaches the guard afterwards fails with the
\* initialization error.
C2_FailedInitializeLeavesSession ==
  [][/\ \A i \in Inits :
          InitializeFailed(i) =>
            /\ isInitialized' = isInitialized
            /\ synapse' = synapse
            /\ inits[i].pc = "create" => inits'[i].error \in CreateErrors
            /\ (/\ inits[i].pc = "idle"
                /\ inits'[i].options # Null
                /\ ~Truthy(inits'[i].options.privateKey)
                /\ ~Truthy(inits'[i].options.provider))
                 => inits'[i].error = Err(MsgMustProvide)
     /\ (/\ \E i \in Inits : inits[i].pc = "thrown"
         /\ ~isInitialized
         /\ CallEntered
         /\ ReachesGuard(call'))
          => /\ call'.pc = "thrown"
             /\ call'.error = Err(MsgNotInitialized)
             /\ call'.trace = << >>]_vars

\* C2 witness: initialize failed for want of a privateKey and a provider, the
\* session is uninitialized and a guarded call has failed on it.
C2_Witness ==
  /\ ~isInitialized
  /\ \E i \in Inits : inits[i].pc = "thrown" /\ inits[i].error = Err(MsgMustProvide)
  /\ call.op = "getStorageInfo" /\ call.pc = "thrown"
  /\ call.error = Err(MsgNotInitialized)

\* the byte length is outside the accepted range
BadLength(length) == length = 0 \/ length > 209715200

\* C3: on an initialized session an upload whose normalized byte length is 0
\* or greater than 209,715,200 fails with the validation error of its case,
\* and neither the preflight, the upload nor the pinning request is issued.
C3_SizeValidation ==
  (call.op \in UploadOps /\ "data" \in DOMAIN call /\ BadLength(call.data.size))
    => /\ call.pc = "thrown"
       /\ call.error = IF call.data.size = 0 THEN Err(MsgTooSmall)
                       ELSE Err(MsgTooLarge)
       /\ call.trace = << >>

\* C3 witness: an upload of 209,715,201 bytes has been rejected.
C3_Witness ==
  /\ call.op = "uploadFile" /\ call.pc = "thrown"
  /\ "data" \in DOMAIN call /\ call.data.size = 209715201


\* s is an initial part of t
IsPrefix(s, t) == Len(s) <= Len(t) /\ s = SubSeq(t, 1, Len(s))

\* the input is a buffer, a byte array, a string or a plain object
SupportedShape(file) ==
  \/ file.t \in {"Buffer", "Uint8Array", "string"}
  \/ file.t = "object" /\ file.shape = "plain"

\* the byte length of a supported input: the bytes of a buffer or array, the
\* UTF-8 length of a string, the UTF-8 length of '{"a":"' s '"}' for {a: s}
ByteLength(file) ==
  CASE file.t \in {"Buffer", "Uint8Array"} -> file.size
    [] file.t = "string" ->
         file.repeat.count * Utf8Bytes(file.repeat.unit)
    [] file.t = "object" ->
         8 + file.a.repeat.count * Utf8Bytes(file.a.repeat.unit)

\* an uploadFile call on an initialized session with a supported input whose
\* byte length is within the accepted range
ValidUpload ==
  /\ call.op = "uploadFile" /\ "file" \in DOMAIN call
  /\ SupportedShape(call.args.file)
  /\ ByteLength(call.args.file) >= 1
  /\ ByteLength(call.args.file) <= 209715200

\* C4 as stated: every upload of a supported input of 1 to 209,715,200 bytes
\* on an initialized session succeeds.
C4_AsClaimed == ValidUpload => call.pc # "thrown"

\* C4 amended: such an upload fails only with the insufficient-allowance
\* error after the preflight or with the error of the preflight or of the
\* network upload; once the network upload has succeeded it returns, and the
\* size of the returned record is the byte length of the input, whatever the
\* pinning step does.
C4_ValidSizeUpload ==
  ValidUpload =>
    /\ call.pc = "returned" => call.value.size = ByteLength(call.args.file)
    /\ "result" \in DOMAIN call => call.pc # "thrown"
    /\ call.pc = "thrown" =>
         \/ /\ TraceNames = <<"preflightUpload">>
            /\ call.error \in {Err(MsgInsufficient)} \cup NetworkErrors
         \/ /\ TraceNames = <<"preflightUpload", "upload">>
            /\ call.error \in NetworkErrors

\* C4 witness: a string of 209,715,200 bytes has been uploaded.
C4_Witness ==
  /\ ValidUpload /\ call.pc = "returned"
  /\ call.args.file.t = "string"
  /\ call.value.size = 209715200

\* C5 as stated: on an initialized session uploadFile of a number, a boolean,
\* undefined, null or a function fails with the unsupported-type error and
\* issues no external call.
C5_AsClaimed ==
  (/\ call.op = "uploadFile" /\ "file" \in DOMAIN call
   /\ call.args.file.t \in {"number", "boolean", "undefined", "null", "function"})
    => /\ call.pc = "thrown"
       /\ call.error = Err(MsgUnsupported)
       /\ call.trace = << >>

\* C6: an upload issues its external calls in the order preflight, network
\* upload, pinning request (and the read of its response), each at most once;
\* the upload only after a preflight that reported a sufficient allowance,
\* the pinning request only after the upload succeeded; after a preflight
\* that reported an insufficient allowance it has failed with the error that
\* asks for the wallet setup and issued nothing else.
C6_UploadOrder ==
  call.op \in UploadOps =>
    /\ IsPrefix(TraceNames, <<"preflightUpload", "upload", "fetch", "res.json">>)
    /\ Len(call.trace) >= 2 =>
         /\ "preflight" \in DOMAIN call
         /\ call.preflight.allowanceCheck.sufficient
    /\ Len(call.trace) >= 3 => "result" \in DOMAIN call
    /\ ("preflight" \in DOMAIN call /\ ~call.preflight.allowanceCheck.sufficient)
         => /\ call.pc = "thrown"
            /\ call.error = Err(MsgInsufficient)
            /\ TraceNames = <<"preflightUpload">>

\* C6 witness: an upload has gone through preflight, upload and pinning.
C6_Witness ==
  /\ call.op = "uploadFile" /\ call.pc = "returned"
  /\ TraceNames = <<"preflightUpload", "upload", "fetch", "res.json">>

\* the pinning step succeeded: a token is configured, the response has an ok
\* status and its body was parsed
PinSucceeded ==
  /\ Truthy(PINATA_JWT)
  /\ "res" \in DOMAIN call /\ call.res.ok
  /\ "pinData" \in DOMAIN call

\* C7: once the network upload has succeeded the upload never rejects,
\* whatever the pinning step does; the returned record has a gatewayURL
\* exactly when the pinning step succeeded, and it is then
\* 'https://ipfs.io/ipfs/' followed by the pieceCid.
C7_PinningNeverFailsUpload ==
  (call.op \in UploadOps /\ "result" \in DOMAIN call) =>
    /\ call.pc \in {"pinFetch", "pinJson", "returned"}
    /\ call.pc = "returned" =>
         /\ "gatewayURL" \in DOMAIN call.value <=> PinSucceeded
         /\ PinSucceeded =>
              call.value.gatewayURL.chars
                = <<"h", "t", "t", "p", "s", ":", "/", "/", "i", "p", "f",
                    "s", ".", "i", "o", "/", "i", "p", "f", "s", "/">>
                  \o call.value.pieceCid.chars

\* C7 witness: the pinning service answered with a status that is not ok and
\* the upload returned a record without gatewayURL.
C7_Witness ==
  /\ call.op = "uploadFile" /\ call.pc = "returned"
  /\ "res" \in DOMAIN call /\ ~call.res.ok
  /\ "gatewayURL" \notin DOMAIN call.value

\* the external calls of a complete setupWallet, in the order of the code
WalletSteps ==
  <<"walletBalance", "parseUnits", "deposit", "depositTx.wait",
    "getWarmStorageAddress", "parseUnits", "parseUnits", "approveService",
    "approveTx.wait", "balance">>

\* C8 as stated: the amounts are converted to base units before the wallet
\* balance is queried, so no conversion follows the balance query.
C8_AsClaimed ==
  call.op = "setupWallet" =>
    \A j, k \in 1..Len(call.trace) :
      (j < k /\ call.trace[j].fn = "walletBalance")
        => call.trace[k].fn # "parseUnits"

\* C8 amended: setupWallet performs its steps strictly in the order wallet
\* balance query, conversion of the deposit amount, deposit submission,
\* deposit confirmation, lookup of the service address, conversion of the two
\* allowances and of the lockup period, approval submission, approval
\* confirmation, final balance query; each step once, a step only after the
\* one before it succeeded; a failing step ends the call with the error of
\* that step, unmodified, and no other call is ever issued.
C8_WalletOrder ==
  (call.op = "setupWallet" /\ call.trace # << >>) =>
    /\ IsPrefix(TraceNames, WalletSteps)
    /\ call.pc = "returned" => TraceNames = WalletSteps
    /\ call.pc = "thrown" =>
         LET n == Len(call.trace)
         IN CASE n = 2 -> call.error = parse(call.args.depositAmount).error
              [] n = 6 -> call.error = parse(call.args.rateAllowance).error
              [] n = 7 ->
                   call.error =
                     IF ~parse(call.args.lockupAllowance).ok
                       THEN parse(call.args.lockupAllowance).error
                     ELSE ToBigInt(call.args.maxLockupDays).error
              [] OTHER -> call.error \in NetworkErrors

\* C8 witness: the approval was submitted and failed; the deposit had been
\* submitted and confirmed before.
C8_Witness ==
  /\ call.op = "setupWallet" /\ call.pc = "thrown"
  /\ TraceNames = SubSeq(WalletSteps, 1, 8)
  /\ call.error \in NetworkErrors

\* the record getStorageInfo must return for the settled sub-queries: the
\* defaults for a failed one, the formatted values for a successful one
ExpectedBalance(v) ==
  IF v = Null \/ v.digits = <<0>> THEN Str(<<"0">>) ELSE Str(<<"1", ".", "5">>)

ExpectedAccountInfo(v) ==
  IF v = Null
    THEN [availableFunds |-> Str(<<"0">>), lockedFunds |-> Str(<<"0">>),
          totalFunds |-> Str(<<"0">>)]
  ELSE [availableFunds |-> Str(<<"1", ".", "5">>),
        lockedFunds |-> Str(<<"0">>),
        totalFunds |-> IF "totalFunds" \in DOMAIN v THEN Str(<<"1", ".", "5">>)
                       ELSE Str(<<"0">>)]

ExpectedStorageInfo(v) ==
  IF v = Null \/ "pricing" \notin DOMAIN v
    THEN [pricing |-> [t |-> "object", shape |-> "empty"],
          providers |-> Num(0),
          network |-> Str(<<"u", "n", "k", "n", "o", "w", "n">>)]
  ELSE [pricing |-> [t |-> "object", shape |-> "pricing"],
        providers |-> Num(2),
        network |-> Str(<<"c", "a", "l", "i", "b", "r", "a", "t", "i", "o", "n">>)]

\* C9: getStorageInfo on an initialized session never throws; it returns a
\* complete record in which the fields of each failed sub-query hold their
\* defaults and the fields of each successful sub-query depend on that
\* sub-query alone, whatever the order in which the sub-queries settled; when
\* all three fail it is the default record.
C9_StorageInfoNeverThrows ==
  (call.op = "getStorageInfo" /\ "settled" \in DOMAIN call) =>
    /\ call.pc \in {"queries", "returned"}
    /\ call.pc = "returned" =>
         /\ call.value =
              [balance |-> ExpectedBalance(call.settled.balance),
               accountInfo |-> ExpectedAccountInfo(call.settled.accountInfo),
               storageInfo |-> ExpectedStorageInfo(call.settled.storageInfo)]
         /\ (\A q \in SubQueries : call.settled[q] = Null) =>
              call.value =
                [balance |-> Str(<<"0">>),
                 accountInfo |-> [availableFunds |-> Str(<<"0">>),
                                  lockedFunds |-> Str(<<"0">>),
                                  totalFunds |-> Str(<<"0">>)],
                 storageInfo |->
                   [pricing |-> [t |-> "object", shape |-> "empty"],
                    providers |-> Num(0),
                    network |-> Str(<<"u", "n", "k", "n", "o", "w", "n">>)]]

\* C9 witness: the storage query settled first and succeeded, the two payment
\* queries failed after it, and the record was returned.
C9_Witness ==
  /\ call.op = "getStorageInfo" /\ call.pc = "returned"
  /\ call.order = <<"storageInfo", "balance", "accountInfo">>
  /\ call.settled.balance = Null /\ call.settled.accountInfo = Null
  /\ call.settled.storageInfo # Null
  /\ call.value.storageInfo.providers = Num(2)

\* C10 as stated: checkFileExists returns false when the download rejects
\* with an error whose message contains 'not found' or '404', and re-raises
\* the same rejection in every other case, also when the rejection carries
\* no message.
C10_AsClaimed ==
  (call.op = "checkFileExists" /\ "rejection" \in DOMAIN call) =>
    IF /\ "message" \in DOMAIN call.rejection
       /\ \/ Includes(call.rejection.message,
                      <<"n", "o", "t", " ", "f", "o", "u", "n", "d">>)
          \/ Includes(call.rejection.message, <<"4", "0", "4">>)
      THEN call.pc = "returned" /\ call.value = Bool(FALSE)
    ELSE call.pc = "thrown" /\ call.error = call.rejection


\* the characters of a string value, whichever way the model writes it; the
\* empty string is written one way
StringText(v) ==
  LET text == IF "repeat" \in DOMAIN v
                THEN Text(<<>>, v.repeat.unit, v.repeat.count, <<>>)
              ELSE v.text
  IN IF text.count = 0 THEN Text(text.pre \o text.post, "a", 0, <<>>)
     ELSE text

\* a download has settled with bytes that are the upload of the input x
DownloadedUploadOf(x) ==
  /\ call.op \in {"downloadFile", "downloadJSON"}
  /\ call.pc \in {"returned", "thrown"} /\ "data" \in DOMAIN call
  /\ Normalize(x).ok /\ Normalize(x).data = call.data

\* the input is a value JSON.stringify and JSON.parse carry unchanged
JSONValue(x) == x.t = "null" \/ (x.t = "object" /\ x.shape = "plain")

\* C11 as stated: in front of a network that returns the uploaded bytes,
\* downloading the upload of a string with the text return shape returns that
\* string, and downloading the upload of a JSON object with the JSON return
\* shape returns a value equal to that object.
C11_AsClaimed ==
  \A x \in UploadInputs :
    DownloadedUploadOf(x) =>
      /\ x.t = "string" /\ call.returnAs = "text" =>
           /\ call.pc = "returned"
           /\ call.value.t = "string"
           /\ StringText(call.value) = StringText(x)
      /\ JSONValue(x) /\ call.returnAs = "json" =>
           call.pc = "returned" /\ call.value = x

\* v is a number holding a non-negative integer
NonNegativeInteger(v) == v.t = "number" /\ v.num >= 0

\* the decimal digits of the non-negative integer a number holds
NumberDigits(v) ==
  IF "exp10" \in DOMAIN v THEN IntToDigits(v.num) \o Zeros(v.exp10)
  ELSE IntToDigits(v.num)

\* the bigint v * 10^18 for a non-negative integer v
BaseUnits(v) ==
  BigIntOf(FALSE, StripLeadingZeros(NumberDigits(v) \o Zeros(18)))

\* a setupWallet call on an initialized session whose four arguments are
\* non-negative integers
IntegerSetup ==
  /\ call.op = "setupWallet" /\ "trace" \in DOMAIN call
  /\ \A f \in DOMAIN call.args : NonNegativeInteger(call.args[f])

\* C12 as stated: for non-negative integer arguments (d, r, l, days), once
\* the balance query has resolved the deposit is submitted with d * 10^18,
\* and once the service address has resolved the approval is submitted with
\* r * 10^18, l * 10^18 and days * 2880.
C12_AsClaimed ==
  IntegerSetup =>
    /\ Len(call.trace) >= 2 =>
         /\ Len(call.trace) >= 3
         /\ call.trace[3] =
              [fn |-> "deposit", amount |-> BaseUnits(call.args.depositAmount)]
    /\ Len(call.trace) >= 6 =>
         /\ Len(call.trace) >= 8
         /\ call.trace[8].fn = "approveService"
         /\ call.trace[8].rateAllowance = BaseUnits(call.args.rateAllowance)
         /\ call.trace[8].lockupAllowance
              = BaseUnits(call.args.lockupAllowance)
         /\ call.trace[8].maxLockupPeriod
              = BigIntOf(FALSE, IntToDigits(call.args.maxLockupDays.num * 2880))

\* a downloadFile call that passed the guard of an initialized session
DownloadEntered == call.op = "downloadFile" /\ "returnAs" \in DOMAIN call

\* C13: a downloadFile call on an initialized session requests the bytes of
\* the content identifier exactly once; when they arrive it returns them
\* unchanged if returnAs is omitted or 'uint8array', a blob of them for
\* 'blob', their decoded text for 'text' and the value parsed from that text
\* for 'json', failing with a SyntaxError when the text is not valid JSON;
\* when the request rejects, it fails with that same rejection.
C13_DownloadShapes ==
  DownloadEntered =>
    /\ call.trace = <<[fn |-> "download", pieceCid |-> call.args.pieceCid]>>
    /\ call.pc \in {"download", "returned", "thrown"}
    /\ call.pc = "download" =>
         "data" \notin DOMAIN call /\ "rejection" \notin DOMAIN call
    /\ "rejection" \in DOMAIN call =>
         call.pc = "thrown" /\ call.error = call.rejection
    /\ "data" \in DOMAIN call =>
         LET text == TextDecoderDecode(call.data)
             parsed == JSONParse(text)
         IN CASE call.args.returnAs \in {"undefined", "uint8array"} ->
                   call.pc = "returned" /\ call.value = call.data
              [] call.args.returnAs = "blob" ->
                   /\ call.pc = "returned"
                   /\ call.value.t = "Blob"
                   /\ call.value.parts = call.data
                   /\ call.value.size = call.data.size
              [] call.args.returnAs = "text" ->
                   call.pc = "returned" /\ call.value = text
              [] call.args.returnAs = "json" ->
                   IF parsed.ok
                     THEN call.pc = "returned" /\ call.value = parsed.value
                   ELSE call.pc = "thrown" /\ call.error.t = "SyntaxError"
              [] OTHER -> TRUE

\* C13 witness: a download with the JSON shape has returned the object
\* parsed from well-formed bytes, after exactly one request.
C13_Witness ==
  /\ DownloadEntered /\ call.args.returnAs = "json"
  /\ call.pc = "returned" /\ Len(call.trace) = 1
  /\ call.value.t = "object" /\ call.value.a = Repeat("e'", 1)

\* the step in which the construction of caller i's client completes
CreateCompletes(i) == inits[i].pc = "create" /\ inits'[i].pc = "returned"

\* C14: in every reachable state an initialized session holds a client; the
\* session state changes only in a step that completes the construction of
\* an initialize call; an initialized session stays initialized; and each
\* completed construction stores its own client, so that of overlapping
\* calls that both succeed the one completing last is the one stored.
C14_SessionState ==
  /\ [](isInitialized => synapse # Null)
  /\ [][/\ isInitialized => isInitialized'
        /\ << synapse, isInitialized >>' # << synapse, isInitialized >>
             => \E i \in Inits : CreateCompletes(i)
        /\ \A i \in Inits :
             CreateCompletes(i) =>
               /\ isInitialized'
               /\ synapse' = [client |-> i,
                              options |-> inits[i].synapseOptions]]_vars

\* C14 witness: the constructions of callers 1 and 2 overlapped and both
\* succeeded, that of caller 2 first; the client of caller 1 is stored.
C14_Witness ==
  /\ inits[1].pc = "returned" /\ inits[2].pc = "returned"
  /\ 1 \in inits[2].pending
  /\ isInitialized /\ synapse.client = 1

====
